---- MODULE Spec2Model ----
(***************************************************************************)
(* Credential and CredentialList of eth2deposit/credentials.py.            *)
(*                                                                         *)
(* Python str values that the code builds or rewrites (derivation paths,   *)
(* file names, hex text) are sequences of one-character strings; bytes     *)
(* values are sequences of integers in 0..255; secret keys are integers.   *)
(* The collaborators the file imports (key derivation, BLS, SSZ, keystore  *)
(* codec) are small deterministic stand-ins with the interfaces of         *)
(* spec.md section 6.                                                      *)
(***************************************************************************)
EXTENDS Integers, Sequences, FiniteSets, Bags, TLC

VARIABLES
    credentials,   \* CredentialList.credentials, <<>> before construction
    constructed,   \* TRUE once from_mnemonic has returned a CredentialList
    pc,            \* the method of CredentialList / Credential that is running
    args,          \* the arguments of the running (or last) call
    pos,           \* how many items the running comprehension has consumed
    acc,           \* the list the running comprehension has built so far
    kdCalls,       \* paths handed to mnemonic_and_path_to_key by the last from_mnemonic
    signCalls,     \* number of bls.Sign calls made by the last call
    fs,            \* the files on disk: [name : STRING-sequence |-> content]
    clock,         \* what time.time() reads, in whole seconds
    exports,       \* number of export_* calls started so far
    exported,      \* paths and password of the last export_keystores that returned
    result         \* outcome of the last call

vars == <<credentials, constructed, pc, args, pos, acc, kdCalls, signCalls,
          fs, clock, exports, exported, result>>

-----------------------------------------------------------------------------
(* Bounds of the model *)

MaxKeys == 2
MaxClock == 1
MaxExports == 2

-----------------------------------------------------------------------------
(* Python built-ins used by the code *)

Digits == <<"0", "1", "2", "3", "4", "5", "6", "7", "8", "9">>
HexDigits == <<"0", "1", "2", "3", "4", "5", "6", "7", "8", "9",
               "a", "b", "c", "d", "e", "f">>

\* str(n) / '%i' % n for n >= 0
RECURSIVE str(_)
str(n) == IF n < 10 THEN <<Digits[n + 1]>>
          ELSE str(n \div 10) \o <<Digits[(n % 10) + 1]>>

\* int(s) for a string of decimal digits
DigitValue(c) == CHOOSE d \in 0..9 : Digits[d + 1] = c
RECURSIVE int(_)
int(s) == IF Len(s) = 1 THEN DigitValue(s[1])
          ELSE int(SubSeq(s, 1, Len(s) - 1)) * 10 + DigitValue(s[Len(s)])

\* s.replace(old, new) for one-character old and new
replace(s, old, new) == [i \in 1..Len(s) |-> IF s[i] = old THEN new ELSE s[i]]

\* s.split(sep) for one-character sep
RECURSIVE split(_, _)
split(s, sep) ==
    IF \A i \in 1..Len(s) : s[i] # sep THEN <<s>>
    ELSE LET k == CHOOSE i \in 1..Len(s) :
                      s[i] = sep /\ \A j \in 1..(i - 1) : s[j] # sep
         IN <<SubSeq(s, 1, k - 1)>> \o split(SubSeq(s, k + 1, Len(s)), sep)

\* sum(f) for a sequence f of positive integers
Sum(f) == BagCardinality(f)

\* byte k (from the least significant) of n; the model's integers are below 2^31
Byte(n, k) == IF k >= 4 THEN 0 ELSE (n \div (256 ^ k)) % 256

\* n.to_bytes(length, 'big')
to_bytes_big(n, length) == [i \in 1..length |-> Byte(n, length - i)]

\* n.to_bytes(length, 'little'), the SSZ encoding of a uint
to_bytes_little(n, length) == [i \in 1..length |-> Byte(n, i - 1)]

\* int.from_bytes(b, 'big'); a value of 2^24 or more reads as 2^24
from_bytes_big(b) ==
    LET n == Len(b)
    IN IF \E i \in 1..(n - 3) : b[i] # 0 THEN 256 ^ 3
       ELSE Sum([i \in 1..n |->
                     1 + (IF n - i >= 3 THEN 0 ELSE b[i] * (256 ^ (n - i)))]) - n

\* bytes.hex()
hex(b) == [i \in 1..(2 * Len(b)) |->
              IF i % 2 = 1 THEN HexDigits[(b[(i + 1) \div 2] \div 16) + 1]
              ELSE HexDigits[(b[i \div 2] % 16) + 1]]

\* os.path.join(folder, name) for a relative name and a folder without a trailing separator
path_join(folder, name) == folder \o <<"/">> \o name

Zeros(n) == [i \in 1..n |-> 0]

-----------------------------------------------------------------------------
(* Constants imported from eth2deposit.utils.constants and eth2deposit.settings
   (Gwei amounts are scaled down to fit TLC's 32-bit integers). *)

ETH2GWEI == 1000
MIN_DEPOSIT_AMOUNT == 1 * ETH2GWEI
MAX_DEPOSIT_AMOUNT == 32 * ETH2GWEI
BLS_WITHDRAWAL_PREFIX == <<0>>
DEPOSIT_CLI_VERSION == <<"1", ".", "0", ".", "0">>

\* lengths in bytes of a hash, a public key and a signature
HASH_LEN == 32
PUBKEY_LEN == 48
SIGNATURE_LEN == 96

-----------------------------------------------------------------------------
(* Collaborators: deterministic stand-ins with the interfaces of spec.md 6 *)

\* absorb the bytes b into the running value h: a position-weighted sum
Mix(h, b) ==
    (h * 31 + Sum([i \in 1..Len(b) |->
                      (((i * i + 3 * i + 1) % 251) + 1) * (b[i] + 1)])) % 65521

\* n bytes that determine h (0 <= h < 65536) from any four consecutive ones
Expand(h, n) == [i \in 1..n |-> (h \div (16 ^ ((i - 1) % 4))) % 256]

SHA256(b) == Expand(Mix(7, b), HASH_LEN)

\* bls.SkToPk: injective on the secret keys
SkToPk(sk) == Expand((sk * 3 + 1) % 65521, PUBKEY_LEN)

\* bls.Sign and bls.Verify: Verify(pk, m, sig) iff sig is the signature of m under
\* the secret key of pk
SignatureOf(pk, message) == Expand(Mix(Mix(11, pk), message), SIGNATURE_LEN)
Sign(sk, message) == SignatureOf(SkToPk(sk), message)
Verify(pk, message, signature) == signature = SignatureOf(pk, message)

\* path_to_nodes: "m/12381/3600/i/0" -> <<12381, 3600, i, 0>>
path_to_nodes(path) ==
    LET indices == split(path, "/")
    IN [k \in 1..(Len(indices) - 1) |-> int(indices[k + 1])]

derive_master_SK(mnemonic, password) == (Len(mnemonic) * 17 + Len(password) + 1) % 65521
derive_child_SK(parent_SK, index) == (parent_SK * 31 + index + 7) % 65521

RECURSIVE derive_path(_, _)
derive_path(sk, nodes) ==
    IF nodes = <<>> THEN sk
    ELSE derive_path(derive_child_SK(sk, Head(nodes)), Tail(nodes))

\* mnemonic_and_path_to_key(mnemonic=, path=, password=)
mnemonic_and_path_to_key(mnemonic, path, password) ==
    derive_path(derive_master_SK(mnemonic, password), path_to_nodes(path))

\* SSZ containers and their hash-tree-roots
DepositMessage(pubkey, withdrawal_credentials, amount) ==
    [pubkey |-> pubkey, withdrawal_credentials |-> withdrawal_credentials,
     amount |-> amount]

DepositData(message, signature) ==
    [pubkey |-> message.pubkey,
     withdrawal_credentials |-> message.withdrawal_credentials,
     amount |-> message.amount, signature |-> signature]

DepositMessage_hash_tree_root(m) ==
    SHA256(m.pubkey \o m.withdrawal_credentials \o to_bytes_little(m.amount, 8))

DepositData_hash_tree_root(d) ==
    SHA256(d.pubkey \o d.withdrawal_credentials \o to_bytes_little(d.amount, 8)
           \o d.signature)

DOMAIN_DEPOSIT == <<3, 0, 0, 0>>

compute_deposit_domain(fork_version) ==
    DOMAIN_DEPOSIT \o SubSeq(SHA256(fork_version \o Zeros(HASH_LEN)), 1, 28)

compute_signing_root(message, domain) ==
    SHA256(DepositMessage_hash_tree_root(message) \o domain)

\* Keystore codec: the decryption key comes from the password, the checksum binds
\* the key to the cipher text, decrypt fails when the checksum does not match
password_bytes(password) == [i \in 1..Len(password) |-> IF password[i] = "M" THEN 77 ELSE 88]

keystore_kdf(password) == Expand(Mix(13, password_bytes(password)), 32)

keystore_checksum(key, cipher_message) == SHA256(SubSeq(key, 17, 32) \o cipher_message)

Keystore_encrypt(secret, password, path) ==
    LET key == keystore_kdf(password)
        cipher_message == [i \in 1..Len(secret) |-> (secret[i] + key[i]) % 256]
    IN [crypto |-> [checksum |-> keystore_checksum(key, cipher_message),
                    cipher |-> cipher_message],
        path |-> path,
        pubkey |-> hex(SkToPk(from_bytes_big(secret)))]

Keystore_decrypt(keystore, password) ==
    LET decryption_key == keystore_kdf(password)
        message == keystore.crypto.cipher
    IN IF keystore_checksum(decryption_key, message) # keystore.crypto.checksum
       THEN [ok |-> FALSE, secret |-> <<>>]
       ELSE [ok |-> TRUE,
             secret |-> [i \in 1..Len(message) |->
                             (message[i] - decryption_key[i]) % 256]]

-----------------------------------------------------------------------------
(* class Credential *)

None == <<-1>>

\* Credential.__init__: the two paths, the two derivations, the stored fields
withdrawal_key_path_of(index) ==
    <<"m", "/", "1", "2", "3", "8", "1", "/", "3", "6", "0", "0", "/">>
    \o str(index) \o <<"/", "0">>

signing_key_path_of(index) == withdrawal_key_path_of(index) \o <<"/", "0">>

Credential(mnemonic, mnemonic_password, index, amount, fork_version) ==
    [signing_key_path |-> signing_key_path_of(index),
     withdrawal_sk |-> mnemonic_and_path_to_key(
                           mnemonic, withdrawal_key_path_of(index), mnemonic_password),
     signing_sk |-> mnemonic_and_path_to_key(
                        mnemonic, signing_key_path_of(index), mnemonic_password),
     amount |-> amount,
     fork_version |-> fork_version]

\* the paths __init__ hands to mnemonic_and_path_to_key, in call order
Credential_derivations(index) ==
    <<withdrawal_key_path_of(index), signing_key_path_of(index)>>

signing_pk(c) == SkToPk(c.signing_sk)

withdrawal_pk(c) == SkToPk(c.withdrawal_sk)

\* (variant: the hash is taken of the signing key's public key)
withdrawal_credentials_OfSigningKey(c) ==
    BLS_WITHDRAWAL_PREFIX \o Tail(SHA256(signing_pk(c)))

withdrawal_credentials(c) == BLS_WITHDRAWAL_PREFIX \o Tail(SHA256(withdrawal_pk(c)))

\* (variant: the bounds are exclusive)
deposit_message_ExclusiveBounds(c) ==
    IF ~(MIN_DEPOSIT_AMOUNT < c.amount /\ c.amount < MAX_DEPOSIT_AMOUNT)
    THEN [ok |-> FALSE, exc |-> "ValidationError"]
    ELSE [ok |-> TRUE,
          value |-> DepositMessage(signing_pk(c), withdrawal_credentials(c), c.amount)]

\* the property deposit_message: a ValidationError or the message
deposit_message(c) ==
    IF ~(MIN_DEPOSIT_AMOUNT <= c.amount /\ c.amount <= MAX_DEPOSIT_AMOUNT)
    THEN [ok |-> FALSE, exc |-> "ValidationError"]
    ELSE [ok |-> TRUE,
          value |-> DepositMessage(signing_pk(c), withdrawal_credentials(c), c.amount)]

\* (variant: the signing root is computed before the override is substituted)
generate_signed_deposit_SignsDerived(c, assigned_withdrawal_credentials) ==
    LET dm == deposit_message(c)
    IN IF ~dm.ok THEN [ok |-> FALSE, exc |-> dm.exc, signs |-> 0]
       ELSE LET root == compute_signing_root(
                            dm.value, compute_deposit_domain(c.fork_version))
                substituted ==
                    IF assigned_withdrawal_credentials # None
                    THEN [dm.value EXCEPT !.withdrawal_credentials =
                                              assigned_withdrawal_credentials]
                    ELSE dm.value
            IN [ok |-> TRUE,
                value |-> DepositData(substituted, Sign(c.signing_sk, root)),
                signs |-> 1]

\* generate_signed_deposit: signs is the number of bls.Sign calls made
generate_signed_deposit(c, assigned_withdrawal_credentials) ==
    LET domain == compute_deposit_domain(c.fork_version)
        dm == deposit_message(c)
    IN IF ~dm.ok THEN [ok |-> FALSE, exc |-> dm.exc, signs |-> 0]
       ELSE LET message ==
                    IF assigned_withdrawal_credentials # None
                    THEN [dm.value EXCEPT !.withdrawal_credentials =
                                              assigned_withdrawal_credentials]
                    ELSE dm.value
                signing_root == compute_signing_root(message, domain)
            IN [ok |-> TRUE,
                value |-> DepositData(message, Sign(c.signing_sk, signing_root)),
                signs |-> 1]

\* generate_deposit_datum_dict
generate_deposit_datum_dict(c, assigned_withdrawal_credentials) ==
    LET signed == generate_signed_deposit(c, assigned_withdrawal_credentials)
    IN IF ~signed.ok THEN signed
       ELSE LET dm == deposit_message(c)
            IN [ok |-> TRUE,
                value |-> [pubkey |-> signed.value.pubkey,
                           withdrawal_credentials |-> signed.value.withdrawal_credentials,
                           amount |-> signed.value.amount,
                           signature |-> signed.value.signature,
                           deposit_message_root |->
                               DepositMessage_hash_tree_root(dm.value),
                           deposit_data_root |->
                               DepositData_hash_tree_root(signed.value),
                           fork_version |-> c.fork_version,
                           deposit_cli_version |-> DEPOSIT_CLI_VERSION],
                signs |-> signed.signs]

\* signing_keystore
signing_keystore(c, password) ==
    Keystore_encrypt(to_bytes_big(c.signing_sk, 32), password, c.signing_key_path)

\* (variant: the file name carries the timestamp but not the derivation path)
save_signing_keystore_filefolder_TimeOnly(c, password, folder, now) ==
    path_join(folder,
              <<"k", "e", "y", "s", "t", "o", "r", "e", "-">>
              \o str(now) \o <<".", "j", "s", "o", "n">>)

\* the file name save_signing_keystore builds when time.time() reads now
save_signing_keystore_filefolder(c, password, folder, now) ==
    path_join(folder,
              <<"k", "e", "y", "s", "t", "o", "r", "e", "-">>
              \o replace(signing_keystore(c, password).path, "/", "_")
              \o <<"-">> \o str(now) \o <<".", "j", "s", "o", "n">>)

\* (variant: a keystore that cannot be decrypted counts as verified)
verify_keystore_SwallowsFailure(c, files, keystore_filefolder, password) ==
    IF keystore_filefolder \notin DOMAIN files
    THEN [ok |-> FALSE, exc |-> "FileNotFoundError"]
    ELSE LET decrypted == Keystore_decrypt(files[keystore_filefolder], password)
         IN IF ~decrypted.ok THEN [ok |-> TRUE, value |-> TRUE]
            ELSE [ok |-> TRUE,
                  value |-> (c.signing_sk = from_bytes_big(decrypted.secret))]

\* verify_keystore against the files on disk: a boolean, or the error that
\* Keystore.from_file or decrypt raised
verify_keystore(c, files, keystore_filefolder, password) ==
    IF keystore_filefolder \notin DOMAIN files
    THEN [ok |-> FALSE, exc |-> "FileNotFoundError"]
    ELSE LET saved_keystore == files[keystore_filefolder]
             decrypted == Keystore_decrypt(saved_keystore, password)
         IN IF ~decrypted.ok THEN [ok |-> FALSE, exc |-> "KeystoreError"]
            ELSE [ok |-> TRUE,
                  value |-> (c.signing_sk = from_bytes_big(decrypted.secret))]

-----------------------------------------------------------------------------
(* Inputs *)

Mnemonic == <<"l", "e", "g", "a", "l">>
MnemonicPassword == <<>>
Passwords == {<<"M", "y">>, <<"X">>}
Folder == <<"k">>
StartIndices == {0, 9}
ForkVersions == {<<0, 0, 0, 0>>, <<0, 0, 32, 9>>}
BoundaryAmounts == {MIN_DEPOSIT_AMOUNT - 1, MIN_DEPOSIT_AMOUNT,
                    MAX_DEPOSIT_AMOUNT, MAX_DEPOSIT_AMOUNT + 1}
TwoAmounts == {MAX_DEPOSIT_AMOUNT, MAX_DEPOSIT_AMOUNT + 1}
OneAmount == {MAX_DEPOSIT_AMOUNT}
AmountLists(S) == UNION {[1..k -> S] : k \in 0..MaxKeys}
Overrides == {None, Expand(4242, HASH_LEN)}

Min(a, b) == IF a <= b THEN a ELSE b

NoResult == [op |-> "none", kind |-> "none"]
Running(op) == [op |-> op, kind |-> "running"]
Return(op, value) == [op |-> op, kind |-> "return", value |-> value]
Raise(op, exc) == [op |-> op, kind |-> "raise", exc |-> exc]

NotExported == [valid |-> FALSE, paths |-> <<>>, password |-> <<>>]

\* open(name, 'w') / keystore.save(name): create or overwrite the file
write_file(files, name, content) ==
    [n \in (DOMAIN files) \cup {name} |-> IF n = name THEN content ELSE files[n]]

\* json.dump(deposit_data, f, default=lambda x: x.hex())
json_dump(deposit_data) ==
    [i \in 1..Len(deposit_data) |->
        [pubkey |-> hex(deposit_data[i].pubkey),
         withdrawal_credentials |-> hex(deposit_data[i].withdrawal_credentials),
         amount |-> deposit_data[i].amount,
         signature |-> hex(deposit_data[i].signature),
         deposit_message_root |-> hex(deposit_data[i].deposit_message_root),
         deposit_data_root |-> hex(deposit_data[i].deposit_data_root),
         fork_version |-> hex(deposit_data[i].fork_version),
         deposit_cli_version |-> deposit_data[i].deposit_cli_version]]

deposit_data_filefolder(folder, now) ==
    path_join(folder,
              <<"d", "e", "p", "o", "s", "i", "t", "_", "d", "a", "t", "a", "-">>
              \o str(now) \o <<".", "j", "s", "o", "n">>)

-----------------------------------------------------------------------------
(* State machine *)

Init ==
    /\ credentials = <<>>
    /\ constructed = FALSE
    /\ pc = "idle"
    /\ args = [op |-> "none"]
    /\ pos = 0
    /\ acc = <<>>
    /\ kdCalls = <<>>
    /\ signCalls = 0
    /\ fs = <<>>
    /\ clock = 0
    /\ exports = 0
    /\ exported = NotExported
    /\ result = NoResult

\* time passes
Tick ==
    /\ clock < MaxClock
    /\ clock' = clock + 1
    /\ UNCHANGED <<credentials, constructed, pc, args, pos, acc, kdCalls, signCalls,
                   fs, exports, exported, result>>

\* (variant: only a list of amounts that is too short is rejected)
FromMnemonicCall_TooShortOnly(num_keys, amounts, fork_version, start_index) ==
    /\ pc = "idle"
    /\ ~constructed
    /\ args' = [op |-> "from_mnemonic", num_keys |-> num_keys, amounts |-> amounts,
                fork_version |-> fork_version, start_index |-> start_index]
    /\ pos' = 0
    /\ acc' = <<>>
    /\ kdCalls' = <<>>
    /\ IF Len(amounts) < num_keys
       THEN /\ result' = Raise("from_mnemonic", "ValueError")
            /\ pc' = "idle"
       ELSE /\ result' = Running("from_mnemonic")
            /\ pc' = "from_mnemonic"
    /\ UNCHANGED <<credentials, constructed, signCalls, fs, clock, exports, exported>>

\* CredentialList.from_mnemonic: the length check, then the comprehension
FromMnemonicCall(num_keys, amounts, fork_version, start_index) ==
    /\ pc = "idle"
    /\ ~constructed
    /\ args' = [op |-> "from_mnemonic", num_keys |-> num_keys, amounts |-> amounts,
                fork_version |-> fork_version, start_index |-> start_index]
    /\ pos' = 0
    /\ acc' = <<>>
    /\ kdCalls' = <<>>
    /\ IF Len(amounts) # num_keys
       THEN /\ result' = Raise("from_mnemonic", "ValueError")
            /\ pc' = "idle"
       ELSE /\ result' = Running("from_mnemonic")
            /\ pc' = "from_mnemonic"
    /\ UNCHANGED <<credentials, constructed, signCalls, fs, clock, exports, exported>>

\* (variant: the indices are walked from the last to the first)
FromMnemonicStep_Descending ==
    /\ pc = "from_mnemonic"
    /\ pos < args.num_keys
    /\ LET index == args.start_index + args.num_keys - 1 - pos
       IN /\ acc' = Append(acc, Credential(Mnemonic, MnemonicPassword, index,
                                           args.amounts[(index - args.start_index) + 1],
                                           args.fork_version))
          /\ kdCalls' = kdCalls \o Credential_derivations(index)
    /\ pos' = pos + 1
    /\ UNCHANGED <<credentials, constructed, pc, args, signCalls, fs, clock, exports,
                   exported, result>>

\* one item of `for index in indices`: Credential(index=index, amount=amounts[index - start_index])
FromMnemonicStep ==
    /\ pc = "from_mnemonic"
    /\ pos < args.num_keys
    /\ LET index == args.start_index + pos
       IN /\ acc' = Append(acc, Credential(Mnemonic, MnemonicPassword, index,
                                           args.amounts[(index - args.start_index) + 1],
                                           args.fork_version))
          /\ kdCalls' = kdCalls \o Credential_derivations(index)
    /\ pos' = pos + 1
    /\ UNCHANGED <<credentials, constructed, pc, args, signCalls, fs, clock, exports,
                   exported, result>>

\* return cls([...])
FromMnemonicReturn ==
    /\ pc = "from_mnemonic"
    /\ pos = args.num_keys
    /\ credentials' = acc
    /\ constructed' = TRUE
    /\ result' = Return("from_mnemonic", acc)
    /\ pc' = "idle"
    /\ UNCHANGED <<args, pos, acc, kdCalls, signCalls, fs, clock, exports, exported>>

\* the outcome of a call on one credential, as the caller sees it
Outcome(op, r) == IF r.ok THEN Return(op, r.value) ELSE Raise(op, r.exc)

\* credentials[i].deposit_message
DepositMessageCall(i) ==
    /\ pc = "idle"
    /\ constructed
    /\ i \in 1..Len(credentials)
    /\ args' = [op |-> "deposit_message", i |-> i]
    /\ result' = Outcome("deposit_message", deposit_message(credentials[i]))
    /\ signCalls' = 0
    /\ UNCHANGED <<credentials, constructed, pc, pos, acc, kdCalls, fs, clock, exports,
                   exported>>

\* credentials[i].generate_signed_deposit(assigned_withdrawal_credentials)
GenerateSignedDepositCall(i, assigned_withdrawal_credentials) ==
    /\ pc = "idle"
    /\ constructed
    /\ i \in 1..Len(credentials)
    /\ args' = [op |-> "generate_signed_deposit", i |-> i,
                assigned_withdrawal_credentials |-> assigned_withdrawal_credentials]
    /\ LET r == generate_signed_deposit(credentials[i], assigned_withdrawal_credentials)
       IN /\ result' = Outcome("generate_signed_deposit", r)
          /\ signCalls' = r.signs
    /\ UNCHANGED <<credentials, constructed, pc, pos, acc, kdCalls, fs, clock, exports,
                   exported>>

\* credentials[i].generate_deposit_datum_dict(assigned_withdrawal_credentials)
GenerateDepositDatumDictCall(i, assigned_withdrawal_credentials) ==
    /\ pc = "idle"
    /\ constructed
    /\ i \in 1..Len(credentials)
    /\ args' = [op |-> "generate_deposit_datum_dict", i |-> i,
                assigned_withdrawal_credentials |-> assigned_withdrawal_credentials]
    /\ LET r == generate_deposit_datum_dict(credentials[i],
                                            assigned_withdrawal_credentials)
       IN /\ result' = Outcome("generate_deposit_datum_dict", r)
          /\ signCalls' = r.signs
    /\ UNCHANGED <<credentials, constructed, pc, pos, acc, kdCalls, fs, clock, exports,
                   exported>>

\* CredentialList.export_deposit_data_json(folder, assigned_withdrawal_credentials)
ExportDepositDataJsonCall(assigned_withdrawal_credentials) ==
    /\ pc = "idle"
    /\ constructed
    /\ exports < MaxExports
    /\ exports' = exports + 1
    /\ args' = [op |-> "export_deposit_data_json", folder |-> Folder,
                assigned_withdrawal_credentials |-> assigned_withdrawal_credentials]
    /\ pc' = "export_deposit_data_json"
    /\ pos' = 0
    /\ acc' = <<>>
    /\ signCalls' = 0
    /\ result' = Running("export_deposit_data_json")
    /\ UNCHANGED <<credentials, constructed, kdCalls, fs, clock, exported>>

\* one item of `for cred in credentials`: cred.generate_deposit_datum_dict(...)
ExportDepositDataJsonStep ==
    /\ pc = "export_deposit_data_json"
    /\ pos < Len(credentials)
    /\ LET r == generate_deposit_datum_dict(credentials[pos + 1],
                                            args.assigned_withdrawal_credentials)
       IN /\ signCalls' = signCalls + r.signs
          /\ IF r.ok
             THEN /\ acc' = Append(acc, r.value)
                  /\ pos' = pos + 1
                  /\ UNCHANGED <<pc, result>>
             ELSE /\ result' = Raise("export_deposit_data_json", r.exc)
                  /\ pc' = "idle"
                  /\ UNCHANGED <<acc, pos>>
    /\ UNCHANGED <<credentials, constructed, args, kdCalls, fs, clock, exports, exported>>

\* the file name from time.time(), json.dump, return filefolder
ExportDepositDataJsonReturn ==
    /\ pc = "export_deposit_data_json"
    /\ pos = Len(credentials)
    /\ LET filefolder == deposit_data_filefolder(args.folder, clock)
       IN /\ fs' = write_file(fs, filefolder, json_dump(acc))
          /\ result' = Return("export_deposit_data_json", filefolder)
    /\ pc' = "idle"
    /\ UNCHANGED <<credentials, constructed, args, pos, acc, kdCalls, signCalls, clock,
                   exports, exported>>

\* CredentialList.export_keystores(password, folder)
ExportKeystoresCall(password) ==
    /\ pc = "idle"
    /\ constructed
    /\ exports < MaxExports
    /\ exports' = exports + 1
    /\ args' = [op |-> "export_keystores", password |-> password, folder |-> Folder]
    /\ pc' = "export_keystores"
    /\ pos' = 0
    /\ acc' = <<>>
    /\ exported' = NotExported
    /\ result' = Running("export_keystores")
    /\ UNCHANGED <<credentials, constructed, kdCalls, signCalls, fs, clock>>

\* (variant: a credential whose keystore cannot be saved is skipped)
ExportKeystoresStep_SkipsFailure(saved) ==
    /\ pc = "export_keystores"
    /\ pos < Len(credentials)
    /\ LET credential == credentials[pos + 1]
           keystore == signing_keystore(credential, args.password)
           filefolder == save_signing_keystore_filefolder(
                             credential, args.password, args.folder, clock)
       IN IF saved
          THEN /\ fs' = write_file(fs, filefolder, keystore)
               /\ acc' = Append(acc, filefolder)
          ELSE UNCHANGED <<fs, acc>>
    /\ pos' = pos + 1
    /\ UNCHANGED <<credentials, constructed, pc, args, kdCalls, signCalls, clock,
                   exports, exported, result>>

\* one item of `for credential in credentials`: credential.save_signing_keystore(...);
\* saved is whether keystore.save wrote the file or raised
ExportKeystoresStep(saved) ==
    /\ pc = "export_keystores"
    /\ pos < Len(credentials)
    /\ LET credential == credentials[pos + 1]
           keystore == signing_keystore(credential, args.password)
           filefolder == save_signing_keystore_filefolder(
                             credential, args.password, args.folder, clock)
       IN IF saved
          THEN /\ fs' = write_file(fs, filefolder, keystore)
               /\ acc' = Append(acc, filefolder)
               /\ pos' = pos + 1
               /\ UNCHANGED <<pc, result>>
          ELSE /\ result' = Raise("export_keystores", "OSError")
               /\ pc' = "idle"
               /\ UNCHANGED <<fs, acc, pos>>
    /\ UNCHANGED <<credentials, constructed, args, kdCalls, signCalls, clock, exports,
                   exported>>

ExportKeystoresReturn ==
    /\ pc = "export_keystores"
    /\ pos = Len(credentials)
    /\ result' = Return("export_keystores", acc)
    /\ exported' = [valid |-> TRUE, paths |-> acc, password |-> args.password]
    /\ pc' = "idle"
    /\ UNCHANGED <<credentials, constructed, args, pos, acc, kdCalls, signCalls, fs,
                   clock, exports>>

\* the file lists a caller hands to verify_keystores: the list the last export
\* returned, its prefixes, the list reversed, and the list with one more entry
FileLists ==
    {SubSeq(exported.paths, 1, k) : k \in 0..Len(exported.paths)}
    \cup {[i \in 1..Len(exported.paths) |->
              exported.paths[Len(exported.paths) + 1 - i]]}
    \cup (IF exported.paths = <<>> THEN {}
          ELSE {Append(exported.paths, exported.paths[1])})

\* CredentialList.verify_keystores(keystore_filefolders, password)
VerifyKeystoresCall(keystore_filefolders, password) ==
    /\ pc = "idle"
    /\ constructed
    /\ args' = [op |-> "verify_keystores", keystore_filefolders |-> keystore_filefolders,
                password |-> password]
    /\ pc' = "verify_keystores"
    /\ pos' = 0
    /\ acc' = <<>>
    /\ result' = Running("verify_keystores")
    /\ UNCHANGED <<credentials, constructed, kdCalls, signCalls, fs, clock, exports,
                   exported>>

\* one item of zip(self.credentials, keystore_filefolders) consumed by all(...)
VerifyKeystoresStep ==
    /\ pc = "verify_keystores"
    /\ pos < Min(Len(credentials), Len(args.keystore_filefolders))
    /\ LET r == verify_keystore(credentials[pos + 1], fs,
                                args.keystore_filefolders[pos + 1], args.password)
       IN IF ~r.ok
          THEN /\ result' = Raise("verify_keystores", r.exc)
               /\ pc' = "idle"
               /\ UNCHANGED <<pos, acc>>
          ELSE IF ~r.value
          THEN /\ result' = Return("verify_keystores", FALSE)
               /\ pc' = "idle"
               /\ UNCHANGED <<pos, acc>>
          ELSE /\ pos' = pos + 1
               /\ acc' = Append(acc, args.keystore_filefolders[pos + 1])
               /\ UNCHANGED <<pc, result>>
    /\ UNCHANGED <<credentials, constructed, args, kdCalls, signCalls, fs, clock, exports,
                   exported>>

\* zip is exhausted: all(...) is True
VerifyKeystoresReturn ==
    /\ pc = "verify_keystores"
    /\ pos = Min(Len(credentials), Len(args.keystore_filefolders))
    /\ result' = Return("verify_keystores", TRUE)
    /\ pc' = "idle"
    /\ UNCHANGED <<credentials, constructed, args, pos, acc, kdCalls, signCalls, fs,
                   clock, exports, exported>>

-----------------------------------------------------------------------------
(* Specifications *)

FromMnemonic(S) ==
    \/ \E num_keys \in 0..MaxKeys, amounts \in AmountLists(S),
          fork_version \in ForkVersions, start_index \in StartIndices :
           FromMnemonicCall(num_keys, amounts, fork_version, start_index)
    \/ FromMnemonicStep
    \/ FromMnemonicReturn

\* a list is derived, then its credentials are asked for deposit records
Next ==
    \/ FromMnemonic(BoundaryAmounts)
    \/ \E i \in 1..MaxKeys : DepositMessageCall(i)
    \/ \E i \in 1..MaxKeys, awc \in Overrides : GenerateSignedDepositCall(i, awc)
    \/ \E i \in 1..MaxKeys, awc \in Overrides : GenerateDepositDatumDictCall(i, awc)

Spec == Init /\ [][Next]_vars

\* a list is derived, then its deposit data is exported
NextDeposit ==
    \/ FromMnemonic(TwoAmounts)
    \/ Tick
    \/ \E awc \in Overrides : ExportDepositDataJsonCall(awc)
    \/ ExportDepositDataJsonStep
    \/ ExportDepositDataJsonReturn

SpecDeposit == Init /\ [][NextDeposit]_vars

\* a list is derived, then its keystores are exported and verified
NextKeystore ==
    \/ FromMnemonic(OneAmount)
    \/ Tick
    \/ \E password \in Passwords : ExportKeystoresCall(password)
    \/ \E saved \in BOOLEAN : ExportKeystoresStep(saved)
    \/ ExportKeystoresReturn
    \/ \E files \in FileLists, password \in Passwords :
           VerifyKeystoresCall(files, password)
    \/ VerifyKeystoresStep
    \/ VerifyKeystoresReturn

SpecKeystore == Init /\ [][NextKeystore]_vars

-----------------------------------------------------------------------------
(* Properties *)

\* the credential a call on one credential was made on
Called == credentials[args.i]

\* C1: from_mnemonic rejects every call with len(amounts) != num_keys, and does so
\* before any key derivation: the ValueError is raised with no call to
\* mnemonic_and_path_to_key and no Credential constructed.
C1_MismatchRejectedBeforeDerivation ==
    (args.op = "from_mnemonic" /\ Len(args.amounts) # args.num_keys)
        => /\ result = Raise("from_mnemonic", "ValueError")
           /\ pc = "idle"
           /\ kdCalls = <<>>
           /\ acc = <<>>
           /\ credentials = <<>>
           /\ ~constructed

C1_Witness ==
    /\ args.op = "from_mnemonic"
    /\ Len(args.amounts) > args.num_keys
    /\ result.kind = "raise"

\* C2: with len(amounts) = num_keys, from_mnemonic derives the credentials in
\* strictly ascending index order and returns exactly num_keys credentials, position
\* j holding the credential of account start_index + j (signing path
\* m/12381/3600/{start_index+j}/0/0) with amount amounts[j].
C2_AscendingOneToOne ==
    /\ pc = "from_mnemonic"
           => /\ Len(kdCalls) = 2 * pos
              /\ Len(acc) = pos
    /\ (args.op = "from_mnemonic" /\ result.kind \in {"running", "return"})
           => \A j \in 0..(Len(acc) - 1) :
                  LET account == str(args.start_index + j)
                      withdrawal_path ==
                          <<"m", "/", "1", "2", "3", "8", "1", "/", "3", "6", "0", "0", "/">>
                          \o account \o <<"/", "0">>
                      signing_path == withdrawal_path \o <<"/", "0">>
                  IN /\ kdCalls[2 * j + 1] = withdrawal_path
                     /\ kdCalls[2 * j + 2] = signing_path
                     /\ acc[j + 1].signing_key_path = signing_path
                     /\ acc[j + 1].signing_sk =
                            mnemonic_and_path_to_key(Mnemonic, signing_path,
                                                     MnemonicPassword)
                     /\ acc[j + 1].withdrawal_sk =
                            mnemonic_and_path_to_key(Mnemonic, withdrawal_path,
                                                     MnemonicPassword)
                     /\ acc[j + 1].amount = args.amounts[j + 1]
                     /\ acc[j + 1].fork_version = args.fork_version
    /\ (result.op = "from_mnemonic" /\ result.kind = "return")
           => /\ Len(result.value) = args.num_keys
              /\ result.value = acc
              /\ credentials = result.value

C2_Witness ==
    /\ result.op = "from_mnemonic"
    /\ result.kind = "return"
    /\ args.num_keys = 2
    /\ args.start_index = 9
    /\ args.amounts[1] # args.amounts[2]

\* C3: deposit_message, generate_signed_deposit and generate_deposit_datum_dict fail
\* with a ValidationError exactly when amount is outside [MIN_DEPOSIT_AMOUNT,
\* MAX_DEPOSIT_AMOUNT], before any signature is produced: MIN - 1 and MAX + 1 fail,
\* MIN and MAX succeed.
C3_AmountBounds ==
    result.op \in {"deposit_message", "generate_signed_deposit",
                   "generate_deposit_datum_dict"}
        => LET amount == Called.amount
               failed == result = Raise(result.op, "ValidationError")
           IN /\ result.kind \in {"return", "raise"}
              /\ failed <=> result.kind = "raise"
              /\ failed <=> (amount < MIN_DEPOSIT_AMOUNT \/ amount > MAX_DEPOSIT_AMOUNT)
              /\ amount \in {MIN_DEPOSIT_AMOUNT - 1, MAX_DEPOSIT_AMOUNT + 1} => failed
              /\ amount \in {MIN_DEPOSIT_AMOUNT, MAX_DEPOSIT_AMOUNT} => ~failed
              /\ failed => signCalls = 0

C3_Witness ==
    /\ result.op = "generate_signed_deposit"
    /\ Called.amount = MAX_DEPOSIT_AMOUNT + 1
    /\ result.kind = "raise"

\* C4: for an in-bounds amount and any override (absent or 32 bytes), the DepositData
\* generate_signed_deposit returns carries a signature that verifies under signing_pk
\* against the signing root of the message made of the record's own pubkey,
\* withdrawal_credentials (the override when supplied) and amount, under the deposit
\* domain of the credential's fork_version.
C4_SignatureVerifies ==
    (result.op = "generate_signed_deposit" /\ result.kind = "return")
        => LET d == result.value
               awc == args.assigned_withdrawal_credentials
               signed == DepositMessage(d.pubkey, d.withdrawal_credentials, d.amount)
           IN /\ d.pubkey = SkToPk(Called.signing_sk)
              /\ d.amount = Called.amount
              /\ d.withdrawal_credentials =
                     (IF awc = None THEN withdrawal_credentials(Called) ELSE awc)
              /\ Verify(SkToPk(Called.signing_sk),
                        compute_signing_root(
                            signed, compute_deposit_domain(Called.fork_version)),
                        d.signature)

C4_Witness ==
    /\ result.op = "generate_signed_deposit"
    /\ result.kind = "return"
    /\ args.assigned_withdrawal_credentials # None
    /\ args.assigned_withdrawal_credentials # withdrawal_credentials(Called)

\* the account index a credential was derived for, read from its signing path
account_of(c) == path_to_nodes(c.signing_key_path)[3]

\* C5: in the array export_deposit_data_json writes without an override, the record at
\* each position belongs to the credential at that position: its pubkey is SkToPk of
\* the key at m/12381/3600/{index}/0/0 and its withdrawal_credentials is 0x00 followed
\* by SHA256(SkToPk of the key at m/12381/3600/{index}/0)[1:32], both in hex.
C5_ExportedRecordsByPosition ==
    (result.op = "export_deposit_data_json" /\ result.kind = "return"
     /\ args.assigned_withdrawal_credentials = None)
        => /\ result.value \in DOMAIN fs
           /\ Len(fs[result.value]) = Len(credentials)
           /\ \A j \in 1..Len(credentials) :
                  LET account == str(account_of(credentials[j]))
                      withdrawal_path ==
                          <<"m", "/", "1", "2", "3", "8", "1", "/", "3", "6", "0", "0", "/">>
                          \o account \o <<"/", "0">>
                      withdrawal_sk == mnemonic_and_path_to_key(
                                           Mnemonic, withdrawal_path, MnemonicPassword)
                      signing_sk == mnemonic_and_path_to_key(
                                        Mnemonic, withdrawal_path \o <<"/", "0">>,
                                        MnemonicPassword)
                      record == fs[result.value][j]
                  IN /\ (j > 1 => account_of(credentials[j])
                                      = account_of(credentials[j - 1]) + 1)
                     /\ record.pubkey = hex(SkToPk(signing_sk))
                     /\ record.withdrawal_credentials =
                            hex(<<0>> \o SubSeq(SHA256(SkToPk(withdrawal_sk)), 2, 32))

C5_Witness ==
    /\ result.op = "export_deposit_data_json"
    /\ result.kind = "return"
    /\ args.assigned_withdrawal_credentials = None
    /\ Len(credentials) = 2
    /\ account_of(credentials[2]) = 10

\* verify_keystores has finished on the path list the last export_keystores returned
VerifiedExport ==
    /\ result.op = "verify_keystores"
    /\ result.kind \in {"return", "raise"}
    /\ exported.valid
    /\ args.keystore_filefolders = exported.paths

\* C6 as stated: after export_keystores returns its path list, verify_keystores on the
\* same list returns true with the same password and returns false with any other.
C6_WrongPasswordReturnsFalse ==
    VerifiedExport
        => result = Return("verify_keystores", args.password = exported.password)

\* C6 as amended: with the same password verify_keystores returns true; with any other
\* password, on a list of at least one credential, it never returns true: it returns
\* false or the keystore's decryption failure is raised to the caller.
C6_ExportThenVerify ==
    VerifiedExport
        => /\ args.password = exported.password
                  => result = Return("verify_keystores", TRUE)
           /\ (args.password # exported.password /\ Len(credentials) > 0)
                  => result \in {Return("verify_keystores", FALSE),
                                 Raise("verify_keystores", "KeystoreError")}

C6_Witness ==
    /\ VerifiedExport
    /\ Len(credentials) = 2
    /\ args.password # exported.password
    /\ result.kind = "raise"
    /\ result.exc = "KeystoreError"

\* C7: a successful export_keystores on N credentials writes exactly N keystore files
\* and returns N paths in list order, position j being the file of credential j; the
\* paths are pairwise distinct whatever the clock reads during the calls.
C7_DistinctOrderedPaths ==
    (result.op = "export_keystores" /\ result.kind = "return")
        => LET paths == result.value
               N == Len(credentials)
           IN /\ Len(paths) = N
              /\ \A j \in 1..N :
                     /\ paths[j] \in DOMAIN fs
                     /\ fs[paths[j]].path = credentials[j].signing_key_path
                     /\ Keystore_decrypt(fs[paths[j]], args.password)
                            = [ok |-> TRUE,
                               secret |-> to_bytes_big(credentials[j].signing_sk, 32)]
              /\ \A j, k \in 1..N : j # k => paths[j] # paths[k]
              /\ Cardinality({paths[j] : j \in 1..N}) = N

C7_Witness ==
    /\ result.op = "export_keystores"
    /\ result.kind = "return"
    /\ Len(credentials) = 2
    /\ clock = 0

\* C8: export_keystores is fail-fast: when save_signing_keystore fails at position k,
\* nothing is written for a later position, the failure reaches the caller instead of a
\* shortened path list, and no element is skipped.
C8_FailFast ==
    /\ pc = "export_keystores"
           => /\ Len(acc) = pos
              /\ result.kind = "running"
    /\ (result.op = "export_keystores" /\ result.kind = "raise")
           => /\ pc = "idle"
              /\ pos < Len(credentials)
              /\ Len(acc) = pos
              /\ \A j \in 1..pos :
                     /\ acc[j] \in DOMAIN fs
                     /\ fs[acc[j]].path = credentials[j].signing_key_path
              /\ exports = 1 => DOMAIN fs = {acc[j] : j \in 1..pos}
    /\ (result.op = "export_keystores" /\ result.kind = "return")
           => Len(result.value) = Len(credentials)

C8_Witness ==
    /\ result.op = "export_keystores"
    /\ result.kind = "raise"
    /\ Len(credentials) = 2
    /\ pos = 1

\* C9: in every record generate_deposit_datum_dict returns, with or without an
\* override, deposit_message_root is the hash-tree-root of the DepositMessage made of
\* the record's own pubkey, withdrawal_credentials and amount, and deposit_data_root
\* is the hash-tree-root of the record's DepositData.
C9_RootsOfTheReturnedRecord ==
    (result.op = "generate_deposit_datum_dict" /\ result.kind = "return")
        => LET d == result.value
               signed == DepositMessage(d.pubkey, d.withdrawal_credentials, d.amount)
           IN /\ d.deposit_message_root = DepositMessage_hash_tree_root(signed)
              /\ d.deposit_data_root =
                     DepositData_hash_tree_root(DepositData(signed, d.signature))

\* C10: whenever verify_keystores returns true, every credential has been checked: for
\* every position below the number of credentials there is a file at that position
\* of keystore_filefolders that decrypts under password to that credential's
\* signing_sk, whatever the length of the file list.
C10_TrueMeansAllChecked ==
    (result.op = "verify_keystores" /\ result.kind = "return" /\ result.value)
        => \A i \in 1..Len(credentials) :
               /\ i <= Len(args.keystore_filefolders)
               /\ args.keystore_filefolders[i] \in DOMAIN fs
               /\ LET decrypted == Keystore_decrypt(fs[args.keystore_filefolders[i]],
                                                    args.password)
                  IN /\ decrypted.ok
                     /\ from_bytes_big(decrypted.secret) = credentials[i].signing_sk

=============================================================================
